---- MODULE Spec2Model ----
(***************************************************************************)
(* A model of LLMQuestionAnswerer (rag_usage_example.ipynb): the chunker,  *)
(* the in-memory RAG store, top-k retrieval and the two answer paths.      *)
(*                                                                         *)
(* Texts are sequences of integers.  A sentence is a one-word text <<s>>   *)
(* with s >= 1, the word 0 is the single space that " ".join puts between  *)
(* two strings, and negative words are text the model itself wrote (a      *)
(* summary).  Python's None is the empty set and a present value x of an   *)
(* Optional is {x}.  Python's 0-based indices are 1-based here.            *)
(*                                                                         *)
(* The language model is an external collaborator.  Each call of it can    *)
(* fault; which call faults is an input of the operation (the parameter    *)
(* fault).  Every operation of the class is one action: the class is       *)
(* single-threaded and a method runs to completion.                        *)
(***************************************************************************)
EXTENDS Integers, Sequences, FiniteSets, TLC

VARIABLES quest_ans_tokens_margin, rag_data, rag_embeddings, last

vars == <<quest_ans_tokens_margin, rag_data, rag_embeddings, last>>

----------------------------------------------------------------------------
(* Bounds of the model *)

\* most texts the store may hold before add_rag_data is no longer called
MaxStore == 4
\* most sentences of a document handed to split_document on its own
MaxSentences == 3
\* sentences 1..NumSentences; sentence s encodes into s tokens
NumSentences == 3
\* config.max_position_embeddings of the loaded model, scaled down
MaxPositionEmbeddings == 5

(* Program constants *)

rag_k_nearest_neighbors == 3

----------------------------------------------------------------------------
(* Optional values and strings *)

None == {}
Some(x) == {x}
Get(o) == CHOOSE x \in o : TRUE

SP == 0

RECURSIVE JoinFrom(_, _, _)
JoinFrom(strings, sep, i) ==
    IF i > Len(strings) THEN <<>>
    ELSE IF i = Len(strings) THEN strings[i]
    ELSE strings[i] \o sep \o JoinFrom(strings, sep, i + 1)

\* sep.join(strings)
Join(strings, sep) == JoinFrom(strings, sep, 1)

----------------------------------------------------------------------------
(* The chunker *)

\* self.tokenizer.encode(sentence): the sentence <<s>> encodes into s tokens
tokenizer_encode(sentence) == [j \in 1..sentence[1] |-> sentence[1]]

max_chunk_size(margin) == MaxPositionEmbeddings - margin

Flush(chunks, current_chunk) ==
    IF current_chunk # <<>> THEN Append(chunks, Join(current_chunk, <<SP>>))
    ELSE chunks

\* a chunker that tests the length reached so far, not the length the
\* sentence would bring it to
RECURSIVE SplitLoopLate(_, _, _, _, _, _)
SplitLoopLate(sentences, i, chunks, current_chunk, current_length, budget) ==
    IF i > Len(sentences) THEN Flush(chunks, current_chunk)
    ELSE LET sentence == sentences[i]
             sentence_length == Len(tokenizer_encode(sentence))
         IN  IF current_length > budget
             THEN SplitLoopLate(sentences, i + 1, Flush(chunks, current_chunk),
                                <<sentence>>, sentence_length, budget)
             ELSE SplitLoopLate(sentences, i + 1, chunks,
                                Append(current_chunk, sentence),
                                current_length + sentence_length, budget)

\* a chunker that forgets the flush after the loop
RECURSIVE SplitLoopNoTail(_, _, _, _, _, _)
SplitLoopNoTail(sentences, i, chunks, current_chunk, current_length, budget) ==
    IF i > Len(sentences) THEN chunks
    ELSE LET sentence == sentences[i]
             sentence_length == Len(tokenizer_encode(sentence))
         IN  IF current_length + sentence_length > budget
             THEN SplitLoopNoTail(sentences, i + 1, Flush(chunks, current_chunk),
                                  <<sentence>>, sentence_length, budget)
             ELSE SplitLoopNoTail(sentences, i + 1, chunks,
                                  Append(current_chunk, sentence),
                                  current_length + sentence_length, budget)

\* the for loop of split_document from its i-th sentence on, and the flush
\* after it
RECURSIVE SplitLoop(_, _, _, _, _, _)
SplitLoop(sentences, i, chunks, current_chunk, current_length, budget) ==
    IF i > Len(sentences) THEN Flush(chunks, current_chunk)
    ELSE LET sentence == sentences[i]
             sentence_length == Len(tokenizer_encode(sentence))
         IN  IF current_length + sentence_length > budget
             THEN SplitLoop(sentences, i + 1, Flush(chunks, current_chunk),
                            <<sentence>>, sentence_length, budget)
             ELSE SplitLoop(sentences, i + 1, chunks,
                            Append(current_chunk, sentence),
                            current_length + sentence_length, budget)

\* split_document(document) of an object whose max_chunk_size is budget;
\* document is what sent_tokenize makes of it, its sentences in order
split_document(document, budget) ==
    SplitLoop(document, 1, <<>>, <<>>, 0, budget)

----------------------------------------------------------------------------
(* Inputs of the chunker taken on its own *)

Sentences == {<<s>> : s \in 1..NumSentences}

RECURSIVE SeqsUpTo(_, _)
SeqsUpTo(S, n) ==
    IF n = 0 THEN {<<>>}
    ELSE LET shorter == SeqsUpTo(S, n - 1)
         IN  shorter \cup {Append(q, x) : q \in {r \in shorter : Len(r) = n - 1}, x \in S}

Documents == SeqsUpTo(Sentences, MaxSentences)

\* quest_ans_tokens_margin is any integer the constructor is given; these
\* make the budget range over -1..MaxPositionEmbeddings
Margins == 0..(MaxPositionEmbeddings + 1)

InitSplit ==
    /\ quest_ans_tokens_margin \in Margins
    /\ rag_data = <<>>
    /\ rag_embeddings = None
    /\ last = [op |-> "__init__"]

SplitDocument(document) ==
    /\ last' = [op |-> "split_document",
                document |-> document,
                chunks |-> split_document(document, max_chunk_size(quest_ans_tokens_margin))]
    /\ UNCHANGED <<quest_ans_tokens_margin, rag_data, rag_embeddings>>

NextSplit == \E document \in Documents : SplitDocument(document)

SplitSpec == InitSplit /\ [][NextSplit]_vars

----------------------------------------------------------------------------
(* What the claims about the chunker speak of *)

\* the sentences of a chunk, in order: the words between its single spaces
ChunkSentences(chunk) == SelectSeq(chunk, LAMBDA w : w # SP)

RECURSIVE SumTokens(_, _)
SumTokens(words, i) ==
    IF i > Len(words) THEN 0
    ELSE Len(tokenizer_encode(<<words[i]>>)) + SumTokens(words, i + 1)

\* the token length of a chunk: the sum of its sentences' token counts
ChunkTokens(chunk) == SumTokens(ChunkSentences(chunk), 1)

RECURSIVE ConcatSentences(_, _)
ConcatSentences(chunks, i) ==
    IF i > Len(chunks) THEN <<>>
    ELSE [j \in 1..Len(ChunkSentences(chunks[i])) |-> <<ChunkSentences(chunks[i])[j]>>]
         \o ConcatSentences(chunks, i + 1)

\* C6: every chunk split_document returns has token length at most the
\* budget, except a chunk of exactly one sentence whose own token count
\* exceeds the budget; no chunk of two or more sentences exceeds it.
ChunkBudget ==
    last.op = "split_document" =>
        \A c \in 1..Len(last.chunks) :
            LET chunk == last.chunks[c]
            IN  \/ ChunkTokens(chunk) <= max_chunk_size(quest_ans_tokens_margin)
                \/ /\ Len(ChunkSentences(chunk)) = 1
                   /\ Len(tokenizer_encode(<<ChunkSentences(chunk)[1]>>))
                          > max_chunk_size(quest_ans_tokens_margin)

\* a document whose chunks include a two-sentence chunk that fits exactly,
\* and an oversized sentence alone in its chunk
ChunkBudgetWitness ==
    /\ last.op = "split_document"
    /\ \E c \in 1..Len(last.chunks) :
          /\ Len(ChunkSentences(last.chunks[c])) >= 2
          /\ ChunkTokens(last.chunks[c]) = max_chunk_size(quest_ans_tokens_margin)
    /\ \E c \in 1..Len(last.chunks) :
          /\ Len(ChunkSentences(last.chunks[c])) = 1
          /\ ChunkTokens(last.chunks[c]) > max_chunk_size(quest_ans_tokens_margin)

\* C7: the sentence lists of the chunks, concatenated in chunk order, are
\* the document's sentences, each once and in order, and no chunk is empty.
ChunkCoverage ==
    last.op = "split_document" =>
        /\ ConcatSentences(last.chunks, 1) = last.document
        /\ \A c \in 1..Len(last.chunks) : ChunkSentences(last.chunks[c]) # <<>>

\* a three-sentence document split into more than one chunk, one of them
\* of several sentences
ChunkCoverageWitness ==
    /\ last.op = "split_document"
    /\ Len(last.document) = 3
    /\ Len(last.chunks) >= 2
    /\ \E c \in 1..Len(last.chunks) : Len(ChunkSentences(last.chunks[c])) >= 2
    /\ ConcatSentences(last.chunks, 1) = last.document

----------------------------------------------------------------------------
(* The embedder *)

\* the last hidden state the model gives one token (two dimensions)
TokenHidden(w) ==
    CASE w = 0 -> <<0, 6>>
      [] w = 1 -> <<6, 0>>
      [] w = 2 -> <<-6, 6>>
      [] w = 3 -> <<0, -6>>
      [] w = -1 -> <<6, 6>>
      [] w = -2 -> <<6, -6>>
      [] OTHER -> <<6, 12>>

RECURSIVE SumHidden(_, _)
SumHidden(text, i) ==
    IF i > Len(text) THEN <<0, 0>>
    ELSE LET h == TokenHidden(text[i])
             r == SumHidden(text, i + 1)
         IN  <<h[1] + r[1], h[2] + r[2]>>

\* the last hidden state the model may give a pad position
PadHiddens == { <<0, 0>>, <<6, 12>> }

RECURSIVE MaxLen(_, _)
MaxLen(texts, i) ==
    IF i > Len(texts) THEN 0
    ELSE LET rest == MaxLen(texts, i + 1)
         IN  IF Len(texts[i]) >= rest THEN Len(texts[i]) ELSE rest

\* the token axis of the batch: padding=True pads every text to the longest
PaddedLength(texts) == MaxLen(texts, 1)

\* outputs.last_hidden_state.mean(dim=1) of one text of a batch: the mean
\* over the whole padded token axis, pad positions included (no mask)
MeanPool(text, padded_length, pad_hidden) ==
    LET pads == padded_length - Len(text)
        sum == SumHidden(text, 1)
    IN  <<(sum[1] + pads * pad_hidden[1]) \div padded_length,
          (sum[2] + pads * pad_hidden[2]) \div padded_length>>

\* get_embedding(texts) when it returns: one row per text, pooled over the
\* padded length of the batch
get_embedding(texts, pad_hidden) ==
    [i \in 1..Len(texts) |-> MeanPool(texts[i], PaddedLength(texts), pad_hidden)]

\* get_embedding(text) of a single string: a batch of one, no pad position
embed_one(text) == get_embedding(<<text>>, <<0, 0>>)[1]

\* get_embedding(texts) raises: the model faults, or the batch is empty (the
\* tokenizer has no first encoding to take the keys of)
EmbeddingRaises(texts, fault) == fault = "embed" \/ texts = <<>>

\* rows of an Optional tensor as len() of the store would count them
Rows(embeddings) == IF embeddings = None THEN 0 ELSE Len(Get(embeddings))

----------------------------------------------------------------------------
(* Ingestion *)

RECURSIVE AllChunks(_, _, _)
AllChunks(documents, i, budget) ==
    IF i > Len(documents) THEN <<>>
    ELSE split_document(documents[i], budget) \o AllChunks(documents, i + 1, budget)

\* summarize_chunk(chunk): text the model writes about the chunk
summarize_chunk(chunk) == <<0 - chunk[1]>>

\* documents handed to add_rag_data: one of one sentence, one of two
ShortDocument == << <<1>> >>
LongDocument == << <<1>>, <<2>> >>
DocumentLists == { <<>>, <<ShortDocument>>, <<LongDocument>>, <<ShortDocument, LongDocument>> }
AddFaults == {"none", "encode", "summarize", "embed"}

\* the texts add_rag_data extends rag_data with and then embeds
NewTexts(all_chunks, use_summaries) ==
    IF use_summaries
    THEN [i \in 1..Len(all_chunks) |-> summarize_chunk(all_chunks[i])]
    ELSE all_chunks

\* add_rag_data(documents, use_summaries); fault names the dependency that
\* raises when it is called
AddRagData(documents, use_summaries, fault, pad_hidden) ==
    LET budget == max_chunk_size(quest_ans_tokens_margin)
        all_chunks == AllChunks(documents, 1, budget)
        texts == NewTexts(all_chunks, use_summaries)
        encode_raises == fault = "encode" /\ \E d \in 1..Len(documents) : documents[d] # <<>>
        summarize_raises == fault = "summarize" /\ use_summaries /\ all_chunks # <<>>
    IN  /\ Len(rag_data) + Len(all_chunks) <= MaxStore
        /\ IF encode_raises \/ summarize_raises
           THEN /\ UNCHANGED <<rag_data, rag_embeddings>>
                /\ last' = [op |-> "add_rag_data", raised |-> TRUE,
                            failed |-> IF encode_raises THEN "encode" ELSE "summarize"]
           ELSE /\ rag_data' = rag_data \o texts
                /\ IF EmbeddingRaises(texts, fault)
                   THEN /\ UNCHANGED rag_embeddings
                        /\ last' = [op |-> "add_rag_data", raised |-> TRUE,
                                    failed |-> "embed"]
                   ELSE /\ rag_embeddings' =
                              IF rag_embeddings = None
                              THEN Some(get_embedding(texts, pad_hidden))
                              ELSE Some(Get(rag_embeddings) \o get_embedding(texts, pad_hidden))
                        /\ last' = [op |-> "add_rag_data", raised |-> FALSE,
                                    failed |-> "none"]
        /\ UNCHANGED quest_ans_tokens_margin

----------------------------------------------------------------------------
(* Retrieval *)

Dot(a, b) == a[1] * b[1] + a[2] * b[2]

\* torch.cosine_similarity(question_embedding, rows): for each row the
\* cosine, kept exactly as numerator and squared denominator
cosine_similarity(q, rows) ==
    [i \in 1..Len(rows) |-> [num |-> Dot(q, rows[i]),
                             den2 |-> Dot(q, q) * Dot(rows[i], rows[i])]]

\* s >= t as cosines
SimGE(s, t) ==
    IF s.num >= 0 /\ t.num < 0 THEN TRUE
    ELSE IF s.num < 0 /\ t.num >= 0 THEN FALSE
    ELSE IF s.num >= 0 THEN s.num * s.num * t.den2 >= t.num * t.num * s.den2
    ELSE s.num * s.num * t.den2 <= t.num * t.num * s.den2

\* a top-k that takes the smallest first
RECURSIVE SelectSmallest(_, _, _)
SelectSmallest(values, remaining, k) ==
    IF k = 0 THEN {<<>>}
    ELSE UNION { { <<i>> \o rest : rest \in SelectSmallest(values, remaining \ {i}, k - 1) }
                 : i \in { m \in remaining : \A j \in remaining : SimGE(values[j], values[m]) } }

\* selection of the k largest of the remaining indices, largest first; equal
\* values come in any order
RECURSIVE SelectLargest(_, _, _)
SelectLargest(values, remaining, k) ==
    IF k = 0 THEN {<<>>}
    ELSE UNION { { <<i>> \o rest : rest \in SelectLargest(values, remaining \ {i}, k - 1) }
                 : i \in { m \in remaining : \A j \in remaining : SimGE(values[m], values[j]) } }

topk_smallest(values, k) == SelectSmallest(values, DOMAIN values, k)

\* values.topk(k) when k <= len(values): the index sequences it may return
topk(values, k) == SelectLargest(values, DOMAIN values, k)

RetrievalFaults == {"none", "embed"}

\* a retrieval that embeds the question before it looks at the store
get_relevant_context_eager(question, fault) ==
    IF EmbeddingRaises(<<question>>, fault)
    THEN {[raised |-> TRUE, value |-> <<>>, embed_calls |-> 1]}
    ELSE IF rag_embeddings = None
    THEN {[raised |-> FALSE, value |-> <<>>, embed_calls |-> 1]}
    ELSE {[raised |-> TRUE, value |-> <<>>, embed_calls |-> 1]}

\* get_relevant_context(question): the outcomes it may have, raised or the
\* returned string, and how often it called the embedder
get_relevant_context(question, fault) ==
    IF rag_embeddings = None
    THEN {[raised |-> FALSE, value |-> <<>>, embed_calls |-> 0]}
    ELSE IF EmbeddingRaises(<<question>>, fault)
    THEN {[raised |-> TRUE, value |-> <<>>, embed_calls |-> 1]}
    ELSE LET question_embedding == embed_one(question)
             similarities == cosine_similarity(question_embedding, Get(rag_embeddings))
         IN  IF rag_k_nearest_neighbors > Len(similarities)
             THEN {[raised |-> TRUE, value |-> <<>>, embed_calls |-> 1]}
             ELSE { [raised |-> FALSE,
                     value |-> Join([j \in 1..rag_k_nearest_neighbors |-> rag_data[indices[j]]],
                                    <<SP>>),
                     embed_calls |-> 1]
                    : indices \in topk(similarities, rag_k_nearest_neighbors) }

Prompts == { <<1>>, <<3>> }

GetRelevantContext(question, fault) ==
    /\ \E out \in get_relevant_context(question, fault) :
          last' = [op |-> "get_relevant_context", question |-> question,
                   fault |-> fault, raised |-> out.raised, value |-> out.value,
                   embed_calls |-> out.embed_calls]
    /\ UNCHANGED <<quest_ans_tokens_margin, rag_data, rag_embeddings>>

----------------------------------------------------------------------------
(* Answering *)

\* Python values an answer can be
Str(parts) == [type |-> "str", text |-> parts]
Dict(items) == [type |-> "dict", items |-> items]
PyInt(n) == [type |-> "int", items |-> {<<"value", <<n>> >>}]
NoValue == [type |-> "none"]

\* output_structure arguments: absent, the empty mapping, a mapping of
\* strings, and a mapping that holds a Python type object
OutputStructures ==
    { None,
      Some({}),
      Some({<<"name", "string">>}),
      Some({<<"age", "<class 'int'>">>}) }

\* bool(output_structure)
Truthy(output_structure) ==
    output_structure # None /\ Get(output_structure) # {}

\* json.dumps(structure) raises TypeError on a value that is no JSON value
JsonDumpsRaises(structure) == \E item \in structure : item[2] = "<class 'int'>"

\* texts the model may decode to
Responses == { "{\"name\": \"Paris\"}", "42", "london" }

\* json.loads(response): the value, or none when JSONDecodeError is raised
json_loads(response) ==
    CASE response = "{\"name\": \"Paris\"}" -> Some(Dict({<<"name", <<"Paris">> >>}))
      [] response = "42" -> Some(PyInt("42"))
      [] OTHER -> None

AnswerFaults == {"none", "embed", "tokenize", "generate", "decode"}

\* the try block both answer paths share: tokenizer, generate, decode.
\* Gives the decoded text, or the message of the exception caught
Generation(fault, response) ==
    IF fault \in {"tokenize", "generate", "decode"}
    THEN [ok |-> FALSE, text |-> fault, generate_calls |-> IF fault = "tokenize" THEN 0 ELSE 1]
    ELSE [ok |-> TRUE, text |-> response, generate_calls |-> 1]

\* generate_structured_output(prompt, output_structure, max_length)
generate_structured_output(output_structure, fault, response) ==
    IF JsonDumpsRaises(output_structure)
    THEN [raised |-> TRUE, value |-> NoValue, generate_calls |-> 0]
    ELSE LET g == Generation(fault, response)
         IN  IF ~g.ok
             THEN [raised |-> FALSE,
                   value |-> Dict({<<"error", <<"An error occurred: ", g.text>> >>}),
                   generate_calls |-> g.generate_calls]
             ELSE IF json_loads(g.text) # None
             THEN [raised |-> FALSE, value |-> Get(json_loads(g.text)),
                   generate_calls |-> g.generate_calls]
             ELSE [raised |-> FALSE,
                   value |-> Dict({<<"error", <<"Failed to generate valid JSON structure">> >>,
                                   <<"raw_response", <<g.text>> >>}),
                   generate_calls |-> g.generate_calls]

\* the plain path of answer_question
plain_answer(fault, response) ==
    LET g == Generation(fault, response)
    IN  [raised |-> FALSE,
         value |-> IF g.ok THEN Str(<<g.text>>) ELSE Str(<<"An error occurred: ", g.text>>),
         generate_calls |-> g.generate_calls]

GenerateStructuredOutput(output_structure, fault, response) ==
    /\ output_structure # None
    /\ LET out == generate_structured_output(Get(output_structure), fault, response)
       IN  last' = [op |-> "generate_structured_output",
                    output_structure |-> output_structure, fault |-> fault,
                    raised |-> out.raised, value |-> out.value]
    /\ UNCHANGED <<quest_ans_tokens_margin, rag_data, rag_embeddings>>

\* answer_question(prompt, use_rag, max_length, output_structure)
AnswerQuestion(prompt, use_rag, output_structure, fault, response) ==
    /\ \E ctx \in (IF use_rag THEN get_relevant_context(prompt, fault)
                   ELSE {[raised |-> FALSE, value |-> <<>>, embed_calls |-> 0]}) :
          LET call == [op |-> "answer_question", prompt |-> prompt, use_rag |-> use_rag,
                       output_structure |-> output_structure, fault |-> fault,
                       embed_calls |-> ctx.embed_calls]
          IN  IF ctx.raised
              THEN last' = call @@ [raised |-> TRUE, value |-> NoValue, path |-> "retrieval",
                                    context |-> None, generate_calls |-> 0]
              ELSE LET out == IF Truthy(output_structure)
                              THEN generate_structured_output(Get(output_structure), fault, response)
                              ELSE plain_answer(fault, response)
                   IN  last' = call @@ [raised |-> out.raised, value |-> out.value,
                                        path |-> IF Truthy(output_structure)
                                                 THEN "structured" ELSE "plain",
                                        context |-> IF use_rag THEN Some(ctx.value) ELSE None,
                                        generate_calls |-> out.generate_calls]
    /\ UNCHANGED <<quest_ans_tokens_margin, rag_data, rag_embeddings>>

----------------------------------------------------------------------------------------------------------------------------------------
(* The object: ingestion and retrieval *)

\* the margin that gives the budget 3
StoreMargins == {MaxPositionEmbeddings - 3}

\* __init__: the store is created empty
Init ==
    /\ quest_ans_tokens_margin \in StoreMargins
    /\ rag_data = <<>>
    /\ rag_embeddings = None
    /\ last = [op |-> "__init__"]

Next ==
    \/ \E documents \in DocumentLists, use_summaries \in BOOLEAN, fault \in AddFaults,
          pad_hidden \in PadHiddens :
          AddRagData(documents, use_summaries, fault, pad_hidden)
    \/ \E question \in Prompts, fault \in RetrievalFaults :
          GetRelevantContext(question, fault)

Spec == Init /\ [][Next]_vars

----------------------------------------------------------------------------
(* The object: answering, over stores filled two chunks at a time *)

AnswerDocumentLists == { <<>>, <<ShortDocument, LongDocument>> }

\* the decoded text matters only when tokenizer, generate and decode return
ResponsesUnder(fault) ==
    IF fault \in {"tokenize", "generate", "decode"} THEN {""} ELSE Responses

NextAnswer ==
    \/ \E documents \in AnswerDocumentLists, use_summaries \in BOOLEAN, fault \in AddFaults,
          pad_hidden \in PadHiddens :
          AddRagData(documents, use_summaries, fault, pad_hidden)
    \/ \E question \in Prompts, fault \in RetrievalFaults :
          GetRelevantContext(question, fault)
    \/ \E prompt \in Prompts, use_rag \in BOOLEAN, output_structure \in OutputStructures,
          fault \in AnswerFaults :
          \E response \in ResponsesUnder(fault) :
              AnswerQuestion(prompt, use_rag, output_structure, fault, response)
    \/ \E output_structure \in OutputStructures, fault \in AnswerFaults \ {"embed"} :
          \E response \in ResponsesUnder(fault) :
              GenerateStructuredOutput(output_structure, fault, response)

AnswerSpec == Init /\ [][NextAnswer]_vars

----------------------------------------------------------------------------
(* What the claims about the store and the answer paths speak of *)

\* C1: the number of stored texts equals the number of stored embedding
\* rows (0 when rag_embeddings is None) in every reachable state.
StoreLengthsAgree == Len(rag_data) = Rows(rag_embeddings)

\* C2: when get_embedding raises in add_rag_data, the stored texts and the
\* stored embeddings are what they were before the call.
FailedEmbeddingCommitsNothing ==
    [][(last'.op = "add_rag_data" /\ last'.failed = "embed")
          => (rag_data' = rag_data /\ rag_embeddings' = rag_embeddings)]_vars

\* C3: with 0 < n < k rows stored, get_relevant_context does not fault when
\* its dependencies do not, and what it returns is built from at most n
\* stored chunks.
SmallStoreRetrievalClamps ==
    (/\ last.op = "get_relevant_context"
     /\ last.fault = "none"
     /\ 0 < Rows(rag_embeddings)
     /\ Rows(rag_embeddings) < rag_k_nearest_neighbors)
    => /\ ~last.raised
       /\ \E m \in 0..Rows(rag_embeddings) :
             \E indices \in [1..m -> 1..Len(rag_data)] :
                last.value = Join([j \in 1..m |-> rag_data[indices[j]]], <<SP>>)

\* C4: answer_question never propagates a fault of tokenization, embedding
\* of the question, top-k retrieval, generation or decoding to its caller
\* (a structure json.dumps cannot render is left aside).
AnswerNeverRaises ==
    (/\ last.op = "answer_question"
     /\ ~(Truthy(last.output_structure) /\ JsonDumpsRaises(Get(last.output_structure))))
    => ~last.raised

\* the cosine of the question's embedding and stored embedding row i
RowSimilarity(question, i) ==
    cosine_similarity(embed_one(question), <<Get(rag_embeddings)[i]>>)[1]

\* rows lo..hi are what one get_embedding call makes of texts lo..hi
IsBatchEmbedding(lo, hi) ==
    \E pad_hidden \in PadHiddens :
        SubSeq(Get(rag_embeddings), lo, hi) = get_embedding(SubSeq(rag_data, lo, hi), pad_hidden)

\* the store from position lo on splits into batches, the rows of each
\* being the embeddings of its texts, in order
RECURSIVE PairedFrom(_)
PairedFrom(lo) ==
    \/ lo > Len(rag_data)
    \/ \E hi \in lo..Len(rag_data) : IsBatchEmbedding(lo, hi) /\ PairedFrom(hi + 1)

\* indices names k different stored texts, no text left out is more similar
\* to the question than one named, and they are named most similar first
IsTopK(question, indices, k) ==
    /\ \A a, b \in 1..k : a # b => indices[a] # indices[b]
    /\ \A a \in 1..(k - 1) :
          SimGE(RowSimilarity(question, indices[a]), RowSimilarity(question, indices[a + 1]))
    /\ \A i \in 1..Len(rag_data) :
          (\A a \in 1..k : indices[a] # i)
              => \A a \in 1..k :
                    SimGE(RowSimilarity(question, indices[a]), RowSimilarity(question, i))

\* C5: in a store of n texts built by add_rag_data calls that returned, row
\* i is the embedding made of text i in the batch it was added with, and for
\* k <= n get_relevant_context returns the texts at the k indices whose rows
\* are most similar to the question's embedding, most similar first, joined
\* by single spaces.
RetrievalOrdering ==
    Len(rag_data) = Rows(rag_embeddings) =>
        /\ PairedFrom(1)
        /\ (/\ last.op = "get_relevant_context"
            /\ last.fault = "none"
            /\ Len(rag_data) >= rag_k_nearest_neighbors)
           => /\ ~last.raised
              /\ \E indices \in [1..rag_k_nearest_neighbors -> 1..Len(rag_data)] :
                    /\ IsTopK(last.question, indices, rag_k_nearest_neighbors)
                    /\ last.value =
                          Join([j \in 1..rag_k_nearest_neighbors |-> rag_data[indices[j]]],
                               <<SP>>)

\* a retrieval from four stored texts of three different similarities to
\* the question, so that one text is left out and the order shows; one row
\* was pooled over pad positions and is not what its text gives alone
RetrievalOrderingWitness ==
    /\ last.op = "get_relevant_context"
    /\ ~last.raised
    /\ Len(rag_data) = 4
    /\ Rows(rag_embeddings) = 4
    /\ \E i \in 1..4 : Get(rag_embeddings)[i] # embed_one(rag_data[i])
    /\ \E a, b, c \in 1..4 :
          /\ ~SimGE(RowSimilarity(last.question, b), RowSimilarity(last.question, a))
          /\ ~SimGE(RowSimilarity(last.question, c), RowSimilarity(last.question, b))
    /\ last.value # <<>>

NothingStored == rag_data = <<>> \/ rag_embeddings = None

\* C8: on an empty store get_relevant_context returns the empty string,
\* does not fault and does not call the embedder; answer_question with
\* use_rag goes on with that empty context and, unless rendering the
\* structure or the tokenizer faults, calls generate.
EmptyStoreIsNoError ==
    /\ (last.op = "get_relevant_context" /\ NothingStored)
       => (~last.raised /\ last.value = <<>> /\ last.embed_calls = 0)
    /\ (last.op = "answer_question" /\ last.use_rag /\ NothingStored)
       => /\ last.path # "retrieval"
          /\ last.context = Some(<<>>)
          /\ last.embed_calls = 0
          /\ (/\ last.fault # "tokenize"
              /\ ~(Truthy(last.output_structure) /\ JsonDumpsRaises(Get(last.output_structure))))
             => (~last.raised /\ last.generate_calls = 1)

\* answer_question with use_rag on the store as constructed, the embedder
\* set to fault, has generated with the empty context
EmptyStoreIsNoErrorWitness ==
    /\ last.op = "answer_question"
    /\ last.use_rag
    /\ rag_data = <<>>
    /\ last.fault = "embed"
    /\ last.context = Some(<<>>)
    /\ last.generate_calls = 1
    /\ last.value = Str(<<"london">>)

\* C9: whenever an output_structure other than None is supplied, the empty
\* mapping included, the call is delegated to generate_structured_output;
\* the plain path is taken only when none is supplied.
SuppliedStructureDelegates ==
    (last.op = "answer_question" /\ last.path # "retrieval")
    => (last.output_structure # None <=> last.path = "structured")

\* C10: generate_structured_output never raises and returns a mapping: the
\* parsed one, the parse-failure record or the error record.
StructuredOutputIsMapping ==
    last.op = "generate_structured_output"
    => /\ ~last.raised
       /\ last.value.type = "dict"

====
